---- MODULE Spec2Model ----
(***************************************************************************)
(* Belaynish Telegram bot (src/index.js): the /ai handler's provider       *)
(* fallback chains, the Replicate job poller and the throttled progress    *)
(* notifier.                                                               *)
(*                                                                         *)
(* SpecPoll  : one run of pollReplicatePrediction with the onProgress      *)
(*             closure of createReplicateProgressEditorFactory wired in.   *)
(* SpecChain : one /ai command in mode chat, tts or media.                 *)
(*                                                                         *)
(* JavaScript runs a task without interruption up to its next await, so    *)
(* every action below is the code between two awaits.                      *)
(***************************************************************************)
EXTENDS Bags, FiniteSets, Integers, Sequences, TLC

VARIABLES
  \* ---- poller (pollReplicatePrediction) ----
  clock,        \* Date.now(), in ms
  start,        \* const start = Date.now()                        (line 203)
  ppc,          \* where the poller is: "start", "fetching", "sleeping", "done"
  pollResult,   \* how the run ended: "none" while running
  submitted,    \* Date.now() when callReplicateCreate was called
  cancelled,    \* the invoking context (the webhook request) was cancelled
  delivered,    \* the handler sent the reply that ends the command
  \* ---- notifier closure (createReplicateProgressEditorFactory) ----
  lastPercent,  \* let lastPercent = -1                             (line 223)
  lastSentTime, \* let lastSentTime = 0                             (line 224)
  progressMsg,  \* let progressMsg = null; "null" or "sent"         (line 225)
  inflight,     \* bag of onProgress invocations suspended at an await
  \* ---- history of the run (read by the properties only) ----
  tickPct,      \* the percent onProgress extracted in this loop iteration
  tickStatus,   \* res.status of the payload fetched in this loop iteration
  emitPct,      \* percent shown by the last emission that showed one, -1 if none
  emitTime,     \* time of the last emission, 0 if none
  quietEmits,   \* emissions so far, counted while no tick had a known percent
  sawPercent,   \* some tick had a known percent
  notifierErr,  \* some send or edit of the notifier failed
  ref,          \* the same run polled with onProgress = null: [pc, result]
  newestMsg,    \* the progress message sent last: "none", "initial" (its
                \* handle went to progressMsg) or "replacement" (line 273)
  given,        \* the payload onProgress is called with, when called alone
  \* ---- /ai handler ----
  mode,         \* parts[0]: "chat", "tts" or "media"
  sub,          \* parts[1] of a media command: "t2i", "t2v" or "flux"
  env,          \* the settings of process.env that are set
  behav,        \* what each provider does when it is called
  hpc,          \* the branch of the handler that runs next
  answer,       \* let answer = null                               (line 442)
  attempts,     \* the providers called so far, in order
  lastErr,      \* the provider whose error was caught last, "none" if none
  posts,        \* the providers the prompt was submitted to, one entry per request
  reply,        \* the reply that ended the command
  \* ---- admin commands and conversation memory ----
  ownerEnv,     \* process.env.OWNER_ID, "unset" when not set
  adminEnv,     \* the comma-separated entries of process.env.ADMIN_IDS
  usingRedis,   \* let usingRedis                                   (line 46)
  redisStore,   \* the histories kept in Redis, by chat id
  memCache,     \* const memCache = new NodeCache(...)              (line 60)
  posted,       \* the channel messages sent by bot.telegram.sendMessage
  cmd,          \* the admin command handled last, with its reply
  \* ---- calls of the memory functions and chat handlers using them ----
  latest,       \* by chat id: what the last completed saveMemory or
                \* clearMemory left as the history, if there was one
  got,          \* the chat id and the result of the getMemory call made last
  chat,         \* by chat handler: where it is and its local array mem
  \* ---- Replicate jobs of handlers that run at the same time ----
  runs,         \* by handler: its place, its job id, its notifier closure,
                \* the start of its polling run and when its pending await is due
  cells,        \* the notifier closures created so far, in order of creation:
                \* lastPercent, lastSentTime, progressMsg of each (lines 223-225)
                \* and its onProgress invocations suspended at an await
  issued,       \* how many prediction ids Replicate has returned
  polls         \* the job ids pollReplicatePrediction was called with, in order

pollVars  == <<clock, start, ppc, pollResult, submitted, cancelled, delivered>>
notifVars == <<lastPercent, lastSentTime, progressMsg, inflight>>
histVars  == <<tickPct, tickStatus, emitPct, emitTime, quietEmits, sawPercent,
               notifierErr, ref, newestMsg>>
chainVars == <<mode, sub, env, behav, hpc, answer, attempts, lastErr, posts, reply>>
adminVars == <<ownerEnv, adminEnv, usingRedis, redisStore, memCache, posted, cmd>>
extractVars == <<given>>
memVars   == <<latest, got, chat>>
jobVars   == <<runs, cells, issued, polls>>
vars      == <<pollVars, notifVars, histVars, chainVars, adminVars, extractVars, memVars, jobVars>>

(***************************************************************************)
(* Settings and bounds                                                     *)
(***************************************************************************)
\* process.env.REPLICATE_POLL_INTERVAL_MS || '3000'
REPLICATE_POLL_INTERVAL_MS == 3000
\* process.env.REPLICATE_POLL_TIMEOUT_SEC, an environment setting (line 200,
\* default '600'); the deployment modelled here sets it to 30 seconds.
REPLICATE_POLL_TIMEOUT_SEC == 30
MIN_DELTA == 5
MIN_INTERVAL_MS == 15000
\* onProgress invocations that may be suspended at an await at one time
MaxInflight == 2

\* Date.now() when the handler starts polling: any time after 1970 is at least
\* MIN_INTERVAL_MS, which is all the notifier's first tick depends on.
StartTime == 2 * MIN_INTERVAL_MS
\* how long one status fetch may take (axios timeout 600000 bounds it)
FetchDurations == {0, REPLICATE_POLL_INTERVAL_MS}

Absent == <<>>
Known(p) == p # Absent
Val(p) == p[1]

Min(a, b) == IF a < b THEN a ELSE b
Max(a, b) == IF a > b THEN a ELSE b

(***************************************************************************)
(* Status payloads (replicateGet's resp.data). Numbers with a fraction are *)
(* kept in thousandths: progress 130 is the JSON number 0.13.              *)
(***************************************************************************)
Statuses == {"processing", "succeeded", "failed", "canceled"}
\* A log line is kept as the tokens the notifier looks for in it: the number
\* of a "NN%" token and the number of a "progress[:=]<float>" token (in
\* thousandths), each Absent when the line has none. NoLog is the line ''.
NoLog == [pct |-> Absent, progress |-> Absent]

Payload(st, prog) ==
  [status |-> st, progress |-> prog, metrics |-> Absent, logs |-> <<>>]

\* no payload in hand
NoPayload == Payload("none", Absent)

\* line 239: res.logs[res.logs.length - 1] || ''
LastLog(res) == IF res.logs = <<>> THEN NoLog ELSE res.logs[Len(res.logs)]

\* what the polled job may report as progress: nothing, 10%, 13%, 16%
ProgressInputs == {Absent, <<100>>, <<130>>, <<160>>}
Payloads == {Payload(st, p) : st \in Statuses, p \in ProgressInputs}

\* Math.round(x * 100) for x given in thousandths (round half up)
RoundTimes100(x) == (x + 5) \div 10
Clamp100(p) == Min(100, Max(0, p))

\* lines 246-248: parseFloat, scaled when <= 1, then Math.round
RoundProgressToken(x) ==
  IF x <= 1000 THEN RoundTimes100(x) ELSE (x + 500) \div 1000

\* lines 233-252 with the log tokens looked up before the fields
ExtractPercent_LogFirst(res) ==
  IF Known(LastLog(res).pct) THEN <<Clamp100(Val(LastLog(res).pct))>>
  ELSE IF Known(LastLog(res).progress)
    THEN <<Clamp100(RoundProgressToken(Val(LastLog(res).progress)))>>
  ELSE IF Known(res.progress) THEN <<RoundTimes100(Val(res.progress))>>
  ELSE IF Known(res.metrics) THEN <<RoundTimes100(Val(res.metrics))>>
  ELSE Absent

\* lines 233-252: the percent of a payload, Absent when unknown (null)
ExtractPercent(res) ==
  IF Known(res.progress) THEN <<RoundTimes100(Val(res.progress))>>
  ELSE IF Known(res.metrics) THEN <<RoundTimes100(Val(res.metrics))>>
  ELSE IF Known(LastLog(res).pct) THEN <<Clamp100(Val(LastLog(res).pct))>>
  ELSE IF Known(LastLog(res).progress)
    THEN <<Clamp100(RoundProgressToken(Val(LastLog(res).progress)))>>
  ELSE Absent

\* line 255 with the time compared to the wrong threshold
ShouldUpdate_WrongThreshold(percent, lastPct, now, lastSent) ==
  \/ (Known(percent) /\ Val(percent) - lastPct >= MIN_DELTA)
  \/ now - lastSent >= MIN_DELTA

\* line 255
ShouldUpdate(percent, lastPct, now, lastSent) ==
  \/ (Known(percent) /\ Val(percent) - lastPct >= MIN_DELTA)
  \/ now - lastSent >= MIN_INTERVAL_MS

(***************************************************************************)
(* pollReplicatePrediction (lines 202-215)                                 *)
(***************************************************************************)
\* lines 205-207: the deadline check at the top of the loop, then the fetch
LoopTop(elapsedMs) ==
  IF elapsedMs > REPLICATE_POLL_TIMEOUT_SEC * 1000
    THEN [pc |-> "done", result |-> "timed_out"]
    ELSE [pc |-> "fetching", result |-> "none"]

\* lines 211-213 without the test of line 212
AfterFetch_NoFailedTest(res) ==
  IF res.status = "succeeded" THEN [pc |-> "done", result |-> "succeeded"]
  ELSE [pc |-> "sleeping", result |-> "none"]

\* lines 211-213: what a fetched status makes of the run
AfterFetch(res) ==
  IF res.status = "succeeded" THEN [pc |-> "done", result |-> "succeeded"]
  ELSE IF res.status = "failed" THEN [pc |-> "done", result |-> "job_failed"]
  ELSE [pc |-> "sleeping", result |-> "none"]

\* onProgress without its outer try/catch
NotifierErrorEscapes_NoCatch(phase) == phase \in {"send", "fallback"}

\* lines 231, 278-280: onProgress wraps its whole body in try/catch, so a failed
\* send or edit never leaves the closure (an escaping rejection of the
\* un-awaited promise would end the process).
NotifierErrorEscapes(phase) == FALSE

\* line 277, reached only when the send or edit before it did not throw
PercentAfterDelivery(pct, lastPct) == IF Known(pct) THEN Val(pct) ELSE lastPct

\* line 263: the delivery path of an emission
DeliveryPath(msg) == IF msg = "null" THEN "send" ELSE "edit"

PollEnter ==
  /\ ppc = "start"
  /\ start' = clock
  /\ LET t == LoopTop(clock - start')
     IN /\ ppc' = t.pc
        /\ pollResult' = t.result
        /\ ref' = t
  /\ UNCHANGED <<clock, submitted, cancelled, delivered, notifVars, tickPct, tickStatus,
                 emitPct, emitTime, quietEmits, sawPercent, notifierErr,
                 newestMsg, chainVars, adminVars, extractVars, memVars, jobVars>>

\* line 213 resolving at once, with no time passed since the fetch returned
PollWake_ClockStandsStill ==
  /\ ppc = "sleeping"
  /\ LET t == LoopTop(clock - start)
     IN /\ ppc' = t.pc
        /\ pollResult' = t.result
        /\ ref' = t
  /\ tickPct' = Absent
  /\ tickStatus' = "none"
  /\ UNCHANGED <<clock, start, submitted, cancelled, delivered, notifVars,
                 emitPct, emitTime, quietEmits, sawPercent, notifierErr,
                 newestMsg, chainVars, adminVars, extractVars, memVars, jobVars>>

\* line 213 resolves after the poll interval; lines 205-207 follow at once.
\* The payload res of the iteration that ended is out of scope.
PollWake ==
  /\ ppc = "sleeping"
  /\ clock' = clock + REPLICATE_POLL_INTERVAL_MS
  /\ LET t == LoopTop(clock' - start)
     IN /\ ppc' = t.pc
        /\ pollResult' = t.result
        /\ ref' = t
  /\ tickPct' = Absent
  /\ tickStatus' = "none"
  /\ UNCHANGED <<start, submitted, cancelled, delivered, notifVars,
                 emitPct, emitTime, quietEmits, sawPercent, notifierErr,
                 newestMsg, chainVars, adminVars, extractVars, memVars, jobVars>>

\* line 207: replicateGet rejects (network error, non-2xx); nothing catches it
FetchThrows ==
  /\ ppc = "fetching"
  /\ \E dur \in FetchDurations : clock' = clock + dur
  /\ ppc' = "done"
  /\ pollResult' = "net_error"
  /\ ref' = [pc |-> "done", result |-> "net_error"]
  /\ UNCHANGED <<start, submitted, cancelled, delivered, notifVars, tickPct, tickStatus,
                 emitPct, emitTime, quietEmits, sawPercent, notifierErr,
                 newestMsg, chainVars, adminVars, extractVars, memVars, jobVars>>

\* lines 231-265/270: onProgress(res) called at time now, up to its first
\* await: the percent is extracted, the update is decided, lastSentTime is
\* written and the send or edit is started.
OnProgress(res, now) ==
  LET percent == ExtractPercent(res)
      should  == ShouldUpdate(percent, lastPercent, now, lastSentTime)
      path    == DeliveryPath(progressMsg)
  IN /\ should => BagCardinality(inflight) < MaxInflight
     /\ lastSentTime' = IF should THEN now ELSE lastSentTime
     /\ inflight' = IF should
          THEN inflight (+) SetToBag({[pct |-> percent, phase |-> path]})
          ELSE inflight
     /\ tickPct' = percent
     /\ tickStatus' = res.status
     /\ emitPct' = IF should /\ Known(percent) THEN Val(percent) ELSE emitPct
     /\ emitTime' = IF should THEN now ELSE emitTime
     /\ sawPercent' = (sawPercent \/ Known(percent))
     /\ quietEmits' = IF sawPercent' THEN 0
                      ELSE IF should THEN quietEmits + 1 ELSE quietEmits

\* lines 207-213: the fetch returns res, onProgress(res) runs to its first
\* await, then the status decides.
FetchReturns ==
  /\ ppc = "fetching"
  /\ \E dur \in FetchDurations, res \in Payloads :
       LET now == clock + dur
           t   == AfterFetch(res)
       IN /\ clock' = now
          /\ ppc' = t.pc
          /\ pollResult' = t.result
          /\ ref' = t
          /\ OnProgress(res, now)
  /\ UNCHANGED <<start, submitted, cancelled, delivered, lastPercent, progressMsg,
                 notifierErr, newestMsg, chainVars, adminVars, extractVars, memVars, jobVars>>

(***************************************************************************)
(* onProgress after its await (lines 265-280)                              *)
(***************************************************************************)
\* an error reaches the catch of line 278
NotifierCatch(phase) ==
  IF NotifierErrorEscapes(phase) /\ ppc # "done"
    THEN ppc' = "done" /\ pollResult' = "unhandled_rejection"
    ELSE UNCHANGED <<ppc, pollResult>>

Remove(inv) == inflight (-) SetToBag({inv})

\* lines 265-266, 277: ctx.reply of the initial message resolves
SendResolves ==
  /\ \E inv \in BagToSet(inflight) :
       /\ inv.phase = "send"
       /\ progressMsg' = "sent"
       /\ lastPercent' = PercentAfterDelivery(inv.pct, lastPercent)
       /\ inflight' = Remove(inv)
  /\ newestMsg' = "initial"
  /\ UNCHANGED <<pollVars, lastSentTime, tickPct, tickStatus, emitPct, emitTime,
                 quietEmits, sawPercent, notifierErr, ref,
                 chainVars, adminVars, extractVars, memVars, jobVars>>

\* line 265 rejects: caught at line 278, nothing recorded
SendRejects ==
  /\ \E inv \in BagToSet(inflight) :
       /\ inv.phase = "send"
       /\ inflight' = Remove(inv)
       /\ NotifierCatch(inv.phase)
  /\ notifierErr' = TRUE
  /\ UNCHANGED <<clock, start, submitted, cancelled, delivered,
                 lastPercent, lastSentTime, progressMsg,
                 tickPct, tickStatus, emitPct, emitTime, quietEmits, sawPercent, ref,
                 newestMsg, chainVars, adminVars, extractVars, memVars, jobVars>>

\* lines 270, 277: editMessageText resolves
EditResolves ==
  /\ \E inv \in BagToSet(inflight) :
       /\ inv.phase = "edit"
       /\ lastPercent' = PercentAfterDelivery(inv.pct, lastPercent)
       /\ inflight' = Remove(inv)
  /\ UNCHANGED <<pollVars, lastSentTime, progressMsg, histVars,
                 chainVars, adminVars, extractVars, memVars, jobVars>>

\* lines 270-273: editMessageText rejects, the fallback ctx.reply starts
EditRejects ==
  /\ \E inv \in BagToSet(inflight) :
       /\ inv.phase = "edit"
       /\ inflight' = Remove(inv) (+) SetToBag({[inv EXCEPT !.phase = "fallback"]})
  /\ notifierErr' = TRUE
  /\ UNCHANGED <<pollVars, lastPercent, lastSentTime, progressMsg,
                 tickPct, tickStatus, emitPct, emitTime, quietEmits, sawPercent, ref,
                 newestMsg, chainVars, adminVars, extractVars, memVars, jobVars>>

\* lines 273, 277: the fallback message is sent; progressMsg keeps the old handle
FallbackResolves ==
  /\ \E inv \in BagToSet(inflight) :
       /\ inv.phase = "fallback"
       /\ lastPercent' = PercentAfterDelivery(inv.pct, lastPercent)
       /\ inflight' = Remove(inv)
  /\ newestMsg' = "replacement"
  /\ UNCHANGED <<pollVars, lastSentTime, progressMsg, tickPct, tickStatus, emitPct,
                 emitTime, quietEmits, sawPercent, notifierErr, ref,
                 chainVars, adminVars, extractVars, memVars, jobVars>>

\* line 273 rejects inside the inner catch: caught at line 278
FallbackRejects ==
  /\ \E inv \in BagToSet(inflight) :
       /\ inv.phase = "fallback"
       /\ inflight' = Remove(inv)
       /\ NotifierCatch(inv.phase)
  /\ notifierErr' = TRUE
  /\ UNCHANGED <<clock, start, submitted, cancelled, delivered,
                 lastPercent, lastSentTime, progressMsg,
                 tickPct, tickStatus, emitPct, emitTime, quietEmits, sawPercent, ref,
                 newestMsg, chainVars, adminVars, extractVars, memVars, jobVars>>

(***************************************************************************)
(* Specification of one polling run                                        *)
(***************************************************************************)
NoReply == [kind |-> "none", src |-> "none", err |-> "none"]

\* no command is being handled
ChainIdle ==
  /\ mode = "none" /\ sub = "none" /\ env = {} /\ behav = <<>>
  /\ hpc = "idle" /\ answer = "null" /\ attempts = <<>> /\ lastErr = "none"
  /\ posts = <<>> /\ reply = NoReply

\* no admin command was handled; nothing is configured or stored
ChatKeys == {"7", "8", "9"}
NoHistory == <<>>
NoCmd == [from |-> 0, mode |-> "none", target |-> "none", reply |-> "none",
          content |-> NoHistory]

AdminIdle ==
  /\ ownerEnv = "unset" /\ adminEnv = {} /\ usingRedis = FALSE
  /\ redisStore = [k \in ChatKeys |-> NoHistory]
  /\ memCache = [k \in ChatKeys |-> NoHistory]
  /\ posted = {} /\ cmd = NoCmd

\* no memory function was called and no chat handler runs
ChatHandlers == {1, 2}
NoneCompleted == [known |-> FALSE, value |-> NoHistory]
NoGet == [key |-> "none", value |-> NoHistory]
NotStarted == [pc |-> "idle", mem |-> NoHistory]

MemIdle ==
  /\ latest = [k \in ChatKeys |-> NoneCompleted]
  /\ got = NoGet
  /\ chat = [i \in ChatHandlers |-> NotStarted]

\* no handler has created a Replicate job
NoRun == [pc |-> "idle", job |-> 0, cell |-> 0, start |-> 0, due |-> 0,
          result |-> "none"]

JobsIdle ==
  /\ runs = [h \in ChatHandlers |-> NoRun]
  /\ cells = <<>> /\ issued = 0 /\ polls = <<>>

InitPoll ==
  /\ clock = StartTime /\ start = 0 /\ ppc = "start" /\ pollResult = "none"
  /\ submitted = StartTime /\ cancelled = FALSE /\ delivered = FALSE
  /\ lastPercent = -1 /\ lastSentTime = 0 /\ progressMsg = "null"
  /\ inflight = EmptyBag
  /\ tickPct = Absent /\ tickStatus = "none"
  /\ emitPct = -1 /\ emitTime = 0 /\ quietEmits = 0
  /\ sawPercent = FALSE /\ notifierErr = FALSE /\ newestMsg = "none"
  /\ given = NoPayload
  /\ ref = [pc |-> "start", result |-> "none"]
  /\ ChainIdle
  /\ AdminIdle
  /\ MemIdle
  /\ JobsIdle

NextPoll ==
  \/ PollEnter
  \/ PollWake
  \/ FetchThrows
  \/ FetchReturns
  \/ SendResolves
  \/ SendRejects
  \/ EditResolves
  \/ EditRejects
  \/ FallbackResolves
  \/ FallbackRejects

SpecPoll == InitPoll /\ [][NextPoll]_vars

\* the payloads of a job that reports its status and no progress
StatusPayloads == {Payload(st, Absent) : st \in Statuses}

\* lines 207-213 for such a job: the fetch returns res, onProgress(res) runs
\* to its first await, then the status decides
FetchReturnsStatus ==
  /\ ppc = "fetching"
  /\ \E dur \in FetchDurations, res \in StatusPayloads :
       LET now == clock + dur
           t   == AfterFetch(res)
       IN /\ clock' = now
          /\ ppc' = t.pc
          /\ pollResult' = t.result
          /\ ref' = t
          /\ OnProgress(res, now)
  /\ UNCHANGED <<start, submitted, cancelled, delivered, lastPercent, progressMsg,
                 notifierErr, newestMsg, chainVars, adminVars, extractVars,
                 memVars, jobVars>>

NextPollStatus ==
  \/ PollEnter
  \/ PollWake
  \/ FetchThrows
  \/ FetchReturnsStatus
  \/ SendResolves
  \/ SendRejects
  \/ EditResolves
  \/ EditRejects
  \/ FallbackResolves
  \/ FallbackRejects

\* One polling run under the scheduling the runtime gives it: while a fetch,
\* a timer or a Telegram call is pending, one of them completes (lines 207,
\* 213, 265-273), and time advances with the timer. Only finitely many
\* notifier steps fit between two steps of the poller.
FairPoll == WF_vars(NextPollStatus)

SpecPollFair == InitPoll /\ [][NextPollStatus]_vars /\ FairPoll

(***************************************************************************)
(* Specification of one Replicate job as the handler runs it (lines        *)
(* 470-474): callReplicateCreate, then pollReplicatePrediction on its id.  *)
(***************************************************************************)
\* how long the create call may take (axios timeout 600000 bounds it)
CreateDurations == {0, REPLICATE_POLL_INTERVAL_MS}

\* lines 183-187, 470-473: the create call returns a prediction with an id
CreateReturns ==
  /\ ppc = "creating"
  /\ \E dur \in CreateDurations : clock' = clock + dur
  /\ ppc' = "start"
  /\ ref' = [pc |-> "start", result |-> "none"]
  /\ UNCHANGED <<start, pollResult, submitted, cancelled, delivered, notifVars, tickPct, tickStatus, emitPct,
                 emitTime, quietEmits, sawPercent, notifierErr,
                 newestMsg, chainVars, adminVars, extractVars, memVars, jobVars>>

\* lines 181-187, 471-483: the create call rejects or returns no id; the job
\* is not polled
CreateFails ==
  /\ ppc = "creating"
  /\ \E dur \in CreateDurations : clock' = clock + dur
  /\ ppc' = "done"
  /\ pollResult' = "not_polled"
  /\ ref' = [pc |-> "done", result |-> "not_polled"]
  /\ UNCHANGED <<start, submitted, cancelled, delivered, notifVars, tickPct, tickStatus, emitPct,
                 emitTime, quietEmits, sawPercent, notifierErr,
                 newestMsg, chainVars, adminVars, extractVars, memVars, jobVars>>

\* The invoking context is cancelled while the job is polled: the webhook
\* request of lines 709-712 ends, or the process is asked to shut down.
\* pollReplicatePrediction(predictionId, onProgress) takes no signal and reads
\* no flag, so nothing of the poller changes.
Cancel ==
  /\ ppc \in {"fetching", "sleeping"}
  /\ ~cancelled
  /\ cancelled' = TRUE
  /\ UNCHANGED <<clock, start, ppc, pollResult, submitted, delivered, notifVars,
                 histVars, chainVars, adminVars, extractVars, memVars, jobVars>>

\* lines 474-476 and 492-494, 649-651, 658: pollReplicatePrediction has
\* returned or thrown (or the job was not polled) and the handler sends the
\* reply that ends the command. Nothing waits for the onProgress invocations
\* the poller started: line 209 dropped their promises.
FinalReply ==
  /\ ppc = "done"
  /\ ~delivered
  /\ delivered' = TRUE
  /\ UNCHANGED <<clock, start, ppc, pollResult, submitted, cancelled, notifVars,
                 histVars, chainVars, adminVars, extractVars, memVars, jobVars>>

InitJob ==
  /\ clock = StartTime /\ start = 0 /\ ppc = "creating" /\ pollResult = "none"
  /\ submitted = StartTime /\ cancelled = FALSE /\ delivered = FALSE
  /\ lastPercent = -1 /\ lastSentTime = 0 /\ progressMsg = "null"
  /\ inflight = EmptyBag
  /\ tickPct = Absent /\ tickStatus = "none"
  /\ emitPct = -1 /\ emitTime = 0 /\ quietEmits = 0
  /\ sawPercent = FALSE /\ notifierErr = FALSE /\ newestMsg = "none"
  /\ given = NoPayload
  /\ ref = [pc |-> "creating", result |-> "none"]
  /\ ChainIdle
  /\ AdminIdle
  /\ MemIdle
  /\ JobsIdle

NextJob ==
  \/ CreateReturns
  \/ CreateFails
  \/ Cancel
  \/ FinalReply
  \/ PollEnter
  \/ PollWake
  \/ FetchThrows
  \/ FetchReturns
  \/ SendResolves
  \/ SendRejects
  \/ EditResolves
  \/ EditRejects
  \/ FallbackResolves
  \/ FallbackRejects

SpecJob == InitJob /\ [][NextJob]_vars

(***************************************************************************)
(* Specification of one call of onProgress on an arbitrary payload, by a   *)
(* notifier that is fresh or has delivered an update of 30% three seconds  *)
(* before.                                                                 *)
(***************************************************************************)
\* the last lines of res.logs: '', "55%", "999%", "progress: 0.42",
\* "progress=1", "progress: 42.4", "progress: 150.5", "progress: 0.42 (55%)"
LogLines ==
  {NoLog,
   [pct |-> <<55>>, progress |-> Absent],
   [pct |-> <<999>>, progress |-> Absent],
   [pct |-> Absent, progress |-> <<420>>],
   [pct |-> Absent, progress |-> <<1000>>],
   [pct |-> Absent, progress |-> <<42400>>],
   [pct |-> Absent, progress |-> <<150500>>],
   [pct |-> <<55>>, progress |-> <<420>>]}

\* res.logs: missing or empty, one line, or a "55%" line followed by a line
LogInputs ==
  {<<>>} \cup {<<l>> : l \in LogLines}
         \cup {<<[pct |-> <<55>>, progress |-> Absent], l>> : l \in LogLines}

\* res.progress: missing, -0.105, 0.42, 1.5; res.metrics.progress: missing, 0.3, 2
DirectInputs == {Absent, <<-105>>, <<420>>, <<1500>>}
MetricsInputs == {Absent, <<300>>, <<2000>>}

ExtractInputs ==
  {[status |-> "processing", progress |-> p, metrics |-> m, logs |-> l] :
     p \in DirectInputs, m \in MetricsInputs, l \in LogInputs}

\* line 209 taken alone: onProgress(given) is called once
OnProgressCall ==
  /\ ppc = "idle"
  /\ tickStatus = "none"
  /\ OnProgress(given, clock)
  /\ UNCHANGED <<pollVars, lastPercent, progressMsg, notifierErr, ref, newestMsg,
                 chainVars, adminVars, extractVars, memVars, jobVars>>

\* lines 223-225 as the factory leaves them
FreshNotifier ==
  /\ lastPercent = -1 /\ lastSentTime = 0 /\ progressMsg = "null"
  /\ emitPct = -1 /\ emitTime = 0 /\ sawPercent = FALSE /\ newestMsg = "none"

\* the closure after an update of 30% was sent three seconds ago
NotifierAfter30 ==
  /\ lastPercent = 30 /\ lastSentTime = clock - REPLICATE_POLL_INTERVAL_MS
  /\ progressMsg = "sent"
  /\ emitPct = 30 /\ emitTime = lastSentTime /\ sawPercent = TRUE
  /\ newestMsg = "initial"

InitExtract ==
  /\ clock = StartTime /\ start = 0 /\ ppc = "idle" /\ pollResult = "none"
  /\ submitted = 0 /\ cancelled = FALSE /\ delivered = FALSE
  /\ given \in ExtractInputs
  /\ FreshNotifier \/ NotifierAfter30
  /\ inflight = EmptyBag
  /\ tickPct = Absent /\ tickStatus = "none" /\ quietEmits = 0
  /\ notifierErr = FALSE
  /\ ref = [pc |-> "idle", result |-> "none"]
  /\ ChainIdle
  /\ AdminIdle
  /\ MemIdle
  /\ JobsIdle

NextExtract ==
  \/ OnProgressCall
  \/ SendResolves
  \/ SendRejects
  \/ EditResolves
  \/ EditRejects
  \/ FallbackResolves
  \/ FallbackRejects

SpecExtract == InitExtract /\ [][NextExtract]_vars

\* onProgress has been called on the payload given
Extracted == tickStatus # "none" /\ given # NoPayload

\* C17: the percent extracted from a payload is unknown or an integer from 0
\* to 100, whichever field or log token it comes from and whatever the number.
C17_PercentInRange ==
  Extracted => (Known(tickPct) => Val(tickPct) \in 0..100)

\* C18: once a progress message has been sent, progressMsg holds the handle
\* of the message sent last, also when that message replaced one whose edit
\* failed; so the next emission edits the newest message.
C18_HandleIsNewestMessage ==
  newestMsg # "none" => (progressMsg = "sent" /\ newestMsg = "initial")

\* C19: the percent comes from the first source present, in the order direct
\* progress field, metrics progress field, "NN%" token of the last log line,
\* progress[:=] token of the last log line (times 100 when at most 1), and is
\* unknown when there is none; {progress: 0.42} gives 42 and an update at once,
\* also when 30 was emitted last.
C19_FirstSourceWins ==
  Extracted =>
    LET last == LastLog(given)
        tok  == Val(last.progress)
    IN /\ Known(given.progress)
            => tickPct = <<RoundTimes100(Val(given.progress))>>
       /\ (~Known(given.progress) /\ Known(given.metrics))
            => tickPct = <<RoundTimes100(Val(given.metrics))>>
       /\ (~Known(given.progress) /\ ~Known(given.metrics) /\ Known(last.pct))
            => tickPct = <<Clamp100(Val(last.pct))>>
       /\ ( /\ ~Known(given.progress) /\ ~Known(given.metrics)
            /\ ~Known(last.pct) /\ Known(last.progress) )
            => tickPct = <<Clamp100(IF tok <= 1000 THEN (tok + 5) \div 10
                                   ELSE (tok + 500) \div 1000)>>
       /\ ( /\ ~Known(given.progress) /\ ~Known(given.metrics)
            /\ ~Known(last.pct) /\ ~Known(last.progress) )
            => tickPct = Absent
       /\ given.progress = <<420>>
            => (tickPct = <<42>> /\ emitTime = clock /\ emitPct = 42)

\* {progress: 0.42} arrives with log lines and a metrics field also present,
\* three seconds after 30% was emitted: 42 is extracted and the edit is started
C19_Witness ==
  /\ Extracted
  /\ given.progress = <<420>> /\ Known(given.metrics) /\ Known(LastLog(given).pct)
  /\ tickPct = <<42>>
  /\ lastPercent = 30 /\ lastSentTime = clock
  /\ \E inv \in BagToSet(inflight) : inv.phase = "edit" /\ inv.pct = <<42>>

(***************************************************************************)
(* Properties of a polling run                                             *)
(***************************************************************************)
Elapsed == clock - start
DeadlineMs == REPLICATE_POLL_TIMEOUT_SEC * 1000
CeilDiv(a, b) == (a + b - 1) \div b

\* a step in which a fetched status was handed to onProgress
IsTick == ppc = "fetching" /\ ppc' # "fetching" /\ pollResult' # "net_error"
\* a step in which onProgress decided to emit an update
Emits == emitTime' # emitTime
\* the invocations that reached their await in this step
NewInvocations ==
  {inv \in BagToSet(inflight') : CopiesIn(inv, inflight') > CopiesIn(inv, inflight)}

\* C13: the deadline runs from the submission of the job: once more than
\* REPLICATE_POLL_TIMEOUT_SEC seconds have passed since the create call, the
\* poller starts no further status fetch, whatever progress the job reports.
C13_DeadlineFromSubmission ==
  ppc = "fetching" => clock - submitted <= DeadlineMs

\* C14: once the invoking context is cancelled, the poller finishes at most
\* the iteration in progress: it starts no further status fetch, and no
\* progress notification is emitted by a fetch started after the cancellation.
C14_CancelStopsPolling ==
  [][cancelled => (ppc' = "fetching" => ppc = "fetching")]_vars

\* how a polling run can end: the succeeded payload is returned, or the run
\* throws because the job failed, the deadline passed or a fetch rejected
RunEnded ==
  /\ ppc = "done"
  /\ pollResult \in {"succeeded", "job_failed", "timed_out", "net_error"}

C21_NoUpdateAfterFinalReply ==
  delivered => inflight = EmptyBag

\* a fetched terminal status has ended the run with the matching result, and
\* a run ends with a result or a job-failed error only on such a status
TerminalEndsRun ==
  /\ tickStatus = "succeeded" => (ppc = "done" /\ pollResult = "succeeded")
  /\ tickStatus = "failed" => (ppc = "done" /\ pollResult = "job_failed")
  /\ pollResult = "succeeded" => tickStatus = "succeeded"
  /\ pollResult = "job_failed" => tickStatus = "failed"

\* a step taken after a terminal status was fetched fetches nothing and calls
\* onProgress with nothing
NothingAfterTerminal ==
  (tickStatus = "succeeded" \/ tickStatus = "failed") =>
    ( /\ UNCHANGED <<ppc, pollResult, clock, tickPct, tickStatus, emitTime>>
      /\ BagCardinality(inflight') <= BagCardinality(inflight) )

\* C15: the run returns as soon as a fetched status is succeeded and fails
\* with a job-failed error as soon as one is failed; once a terminal status has
\* been fetched, the job's status is not fetched again and onProgress is not
\* called again.
C15_TerminalStatusEndsRun ==
  []TerminalEndsRun /\ [][NothingAfterTerminal]_vars

\* a run ended by a failed status that was fetched three seconds or more after
\* the poller started, with a notification still to be delivered
C15_Witness ==
  /\ ppc = "done" /\ pollResult = "job_failed" /\ tickStatus = "failed"
  /\ Elapsed >= REPLICATE_POLL_INTERVAL_MS
  /\ inflight # EmptyBag

\* the invocations of onProgress waiting for their initial ctx.reply
SendsInFlight ==
  BagCardinality([inv \in {i \in BagToSet(inflight) : i.phase = "send"}
                    |-> CopiesIn(inv, inflight)])

\* C20: for one job at most one invocation of onProgress takes the path that
\* sends the initial message, also when a later tick starts while an earlier
\* send is still in flight: no second initial send is started beside a pending
\* one or after the message exists, and no percent is emitted twice.
C20_OneInitialSend ==
  /\ SendsInFlight <= 1
  /\ progressMsg = "sent" => SendsInFlight = 0
  /\ \A inv \in BagToSet(inflight) : CopiesIn(inv, inflight) = 1

\* C4: once more than REPLICATE_POLL_TIMEOUT_SEC seconds have elapsed, a run
\* never ends with a succeeded result or a job-failed error (it ends timed out),
\* also when the status fetch began before the deadline.
C4_NoResultAfterDeadline ==
  (ppc = "done" /\ Elapsed > DeadlineMs) => pollResult \notin {"succeeded", "job_failed"}

\* C5: a status fetch that fails with a network error does not end the run; a
\* run ends unsuccessfully only by an explicit failed status or by the deadline.
C5_FetchErrorKeepsPolling ==
  ppc = "done" => pollResult \in {"succeeded", "job_failed", "timed_out"}

C7_EmitIffDue ==
  [][IsTick =>
       (Emits <=> \/ (Known(tickPct') /\ Val(tickPct') - emitPct >= MIN_DELTA)
                  \/ clock' - emitTime >= MIN_INTERVAL_MS)]_vars

\* C8: the percents of the emitted updates never go down once one is known,
\* and lastPercent never decreases.
C8_PercentNeverDecreases ==
  [][emitPct' >= emitPct /\ lastPercent' >= lastPercent]_vars

\* C9: the first emission of a job sends a new message, every later emission
\* edits the recorded message, and no error leaves the notifier.
C9_FirstSendsLaterEdit ==
  [][/\ Emits => \A inv \in NewInvocations :
                   inv.phase = IF emitTime = 0 THEN "send" ELSE "edit"
     /\ pollResult' # "unhandled_rejection"]_vars

\* C10: while no tick of the run had a known percent, the emissions so far
\* number at most ceil(T / 15000) + 1, T being the milliseconds the run has
\* lasted.
C10_QuietEmissionsBounded ==
  (ppc # "start" /\ ~sawPercent) =>
     quietEmits <= CeilDiv(Elapsed, MIN_INTERVAL_MS) + 1

\* a finished run of 30 seconds or more without any percent, three emissions
C10_Witness ==
  /\ ppc = "done" /\ ~sawPercent
  /\ Elapsed >= 2 * MIN_INTERVAL_MS
  /\ quietEmits = 3

(***************************************************************************)
(* bot.command('ai'): the chat, tts and media branches (lines 424-635).    *)
(* A provider call is awaited inside try/catch; behav[c] is what provider  *)
(* c does when called. For Replicate this covers callReplicateCreate and,  *)
(* when the created job has an id, the outcome of pollReplicatePrediction  *)
(* (the results SpecPoll's runs end with). The Telegram transport is taken *)
(* to deliver the replies.                                                 *)
(***************************************************************************)
Modes == {"chat", "tts", "media"}
Subs(m) == IF m = "media" THEN {"t2i", "t2v", "flux"} ELSE {"none"}
runwayModes == {"t2i", "t2v"}
repModes == {"flux"}

\* the providers a command goes through, in the order of the code
Chain(m, sb) ==
  CASE m = "chat" -> <<"HFSpace", "HFApi", "Replicate">>
    [] m = "tts" -> <<"ElevenLabs", "Replicate">>
    [] m = "media" /\ sb = "t2i" -> <<"Runway", "Stability", "Pixabay">>
    [] m = "media" /\ sb = "t2v" -> <<"Runway">>
    [] m = "media" /\ sb = "flux" -> <<"Replicate">>

\* the settings a command reads
EnvNames(m) ==
  CASE m = "chat" -> {"HF_SPACE_URL", "HUGGINGFACE_API_KEY", "HF_MODEL_URL",
                      "REPLICATE_API_KEY", "REPLICATE_CHAT_MODEL"}
    [] m = "tts" -> {"ELEVENLABS_API_KEY", "ELEVENLABS_VOICE_ID",
                     "REPLICATE_API_KEY", "REPLICATE_TTS_MODEL"}
    [] m = "media" -> {"RUNWAY_API_KEY", "RUNWAY_URL", "REPLICATE_API_KEY",
                       "REPLICATE_MEDIA_MODEL", "STABILITY_KEY", "PIXABAY_KEY"}

\* the outcomes of create-and-poll on Replicate
ReplicateBehaviours ==
  {"throw", "sync", "started", "poll_succeeded", "poll_no_output",
   "poll_job_failed", "poll_timed_out", "poll_net_error"}

Behaviours(c) ==
  CASE c = "HFSpace" -> {"throw", "empty", "ok", "ok2", "ok3"}
    [] c = "HFApi" -> {"throw", "ok"}
    [] c = "Replicate" -> ReplicateBehaviours
    [] c = "ElevenLabs" -> {"throw", "ok"}
    [] c = "Runway" -> {"throw", "no_output", "ok"}
    [] c = "Stability" -> {"throw", "ok"}
    [] c = "Pixabay" -> {"throw", "no_hits", "ok"}

Range(seq) == {seq[i] : i \in 1..Len(seq)}

\* the call rejects: the provider is unreachable, or the polled job failed,
\* timed out or could not be fetched
Throws(b) == b \in {"throw", "poll_job_failed", "poll_timed_out", "poll_net_error"}

\* !answer
Falsy(a) == a \in {"null", ""}

TextReply(a) == [kind |-> "text", src |-> a, err |-> "none"]
MediaReply(kind, c) == [kind |-> kind, src |-> c, err |-> "none"]
ErrorReply(kind, e) == [kind |-> kind, src |-> "none", err |-> e]

\* callHfSpace, lines 151-161: the prompt is posted to the Space's URLs
\* /run/predict, /api/predict and the base URL in turn until one returns output
\* ("ok2": the second does, "ok3": the third, "throw": none); every other
\* provider client makes one axios.post per call.
Submissions(c, b) ==
  IF c = "HFSpace"
    THEN CASE b \in {"ok", "empty"} -> <<c>>
           [] b = "ok2" -> <<c, c>>
           [] OTHER -> <<c, c, c>>
    ELSE <<c>>

\* the requests made by the provider call of this step, if it made one
RecordPosts ==
  posts' = IF attempts' = attempts THEN posts
           ELSE LET c == attempts'[Len(attempts')]
                IN posts \o Submissions(c, behav[c])

\* lines 444-448
ChatHfSpace ==
  /\ hpc = "hfspace"
  /\ IF "HF_SPACE_URL" \in env
       THEN /\ attempts' = Append(attempts, "HFSpace")
            /\ answer' = CASE behav["HFSpace"] \in {"ok", "ok2", "ok3"} -> "HFSpace"
                           [] behav["HFSpace"] = "empty" -> ""
                           [] OTHER -> answer
            /\ lastErr' = IF Throws(behav["HFSpace"]) THEN "HFSpace" ELSE lastErr
       ELSE UNCHANGED <<attempts, answer, lastErr>>
  /\ hpc' = "hfapi"
  /\ UNCHANGED <<mode, sub, env, behav, reply>>
  /\ RecordPosts
  /\ UNCHANGED <<pollVars, notifVars, histVars, adminVars, extractVars, memVars, jobVars>>

\* lines 450-457
ChatHfApi ==
  /\ hpc = "hfapi"
  /\ IF Falsy(answer) /\ "HUGGINGFACE_API_KEY" \in env /\ "HF_MODEL_URL" \in env
       THEN /\ attempts' = Append(attempts, "HFApi")
            /\ answer' = IF behav["HFApi"] = "ok" THEN "HFApi" ELSE answer
            /\ lastErr' = IF Throws(behav["HFApi"]) THEN "HFApi" ELSE lastErr
       ELSE UNCHANGED <<attempts, answer, lastErr>>
  /\ hpc' = "replicate"
  /\ UNCHANGED <<mode, sub, env, behav, reply>>
  /\ RecordPosts
  /\ UNCHANGED <<pollVars, notifVars, histVars, adminVars, extractVars, memVars, jobVars>>

\* lines 459-484
ChatReplicate ==
  /\ hpc = "replicate"
  /\ IF Falsy(answer) /\ "REPLICATE_API_KEY" \in env /\ "REPLICATE_CHAT_MODEL" \in env
       THEN /\ attempts' = Append(attempts, "Replicate")
            /\ answer' = CASE behav["Replicate"] \in {"sync", "poll_succeeded"} -> "Replicate"
                           [] behav["Replicate"] = "poll_no_output" -> "ReplicateJson"
                           [] behav["Replicate"] = "started" -> "ReplicateStarted"
                           [] OTHER -> answer
            /\ lastErr' = IF Throws(behav["Replicate"]) THEN "Replicate" ELSE lastErr
       ELSE UNCHANGED <<attempts, answer, lastErr>>
  /\ hpc' = "fallback"
  /\ UNCHANGED <<mode, sub, env, behav, reply>>
  /\ RecordPosts
  /\ UNCHANGED <<pollVars, notifVars, histVars, adminVars, extractVars, memVars, jobVars>>

\* lines 486-494: the Wikipedia and DuckDuckGo summaries stand in when no
\* provider answered; the answer is saved and replied
ChatFallback ==
  /\ hpc = "fallback"
  /\ answer' = IF Falsy(answer) THEN "wikiduck" ELSE answer
  /\ reply' = TextReply(answer')
  /\ hpc' = "done"
  /\ UNCHANGED <<mode, sub, env, behav, attempts, lastErr>>
  /\ RecordPosts
  /\ UNCHANGED <<pollVars, notifVars, histVars, adminVars, extractVars, memVars, jobVars>>

\* lines 528-533
TtsElevenLabs ==
  /\ hpc = "eleven"
  /\ IF "ELEVENLABS_API_KEY" \in env /\ "ELEVENLABS_VOICE_ID" \in env
       THEN /\ attempts' = Append(attempts, "ElevenLabs")
            /\ IF behav["ElevenLabs"] = "ok"
                 THEN /\ reply' = MediaReply("voice", "ElevenLabs")
                      /\ hpc' = "done"
                      /\ UNCHANGED lastErr
                 ELSE /\ lastErr' = "ElevenLabs"
                      /\ hpc' = "ttsrep"
                      /\ UNCHANGED reply
       ELSE /\ hpc' = "ttsrep"
            /\ UNCHANGED <<attempts, lastErr, reply>>
  /\ UNCHANGED <<mode, sub, env, behav, answer>>
  /\ RecordPosts
  /\ UNCHANGED <<pollVars, notifVars, histVars, adminVars, extractVars, memVars, jobVars>>

\* lines 534-546
TtsReplicate ==
  /\ hpc = "ttsrep"
  /\ IF "REPLICATE_API_KEY" \in env /\ "REPLICATE_TTS_MODEL" \in env
       THEN /\ attempts' = Append(attempts, "Replicate")
            /\ IF behav["Replicate"] \in {"sync", "poll_succeeded"}
                 THEN /\ reply' = MediaReply("voice", "Replicate")
                      /\ hpc' = "done"
                      /\ UNCHANGED lastErr
                 ELSE /\ lastErr' = IF Throws(behav["Replicate"]) THEN "Replicate"
                                    ELSE lastErr
                      /\ hpc' = "ttsfinal"
                      /\ UNCHANGED reply
       ELSE /\ hpc' = "ttsfinal"
            /\ UNCHANGED <<attempts, lastErr, reply>>
  /\ UNCHANGED <<mode, sub, env, behav, answer>>
  /\ RecordPosts
  /\ UNCHANGED <<pollVars, notifVars, histVars, adminVars, extractVars, memVars, jobVars>>

\* line 547
TtsFinal ==
  /\ hpc = "ttsfinal"
  /\ reply' = ErrorReply("NoTtsProvider", "none")
  /\ hpc' = "done"
  /\ UNCHANGED <<mode, sub, env, behav, answer, attempts, lastErr>>
  /\ RecordPosts
  /\ UNCHANGED <<pollVars, notifVars, histVars, adminVars, extractVars, memVars, jobVars>>

\* lines 560-579: every path of the Runway branch returns
MediaRunway ==
  /\ hpc = "runway"
  /\ IF sub \in runwayModes /\ "RUNWAY_API_KEY" \in env
       THEN /\ hpc' = "done"
            /\ IF "RUNWAY_URL" \notin env
                 \* callRunway, line 289: endpoint.replace on undefined throws
                 THEN /\ lastErr' = "RunwayEndpoint"
                      /\ reply' = ErrorReply("RunwayError", "RunwayEndpoint")
                      /\ UNCHANGED attempts
                 ELSE /\ attempts' = Append(attempts, "Runway")
                      /\ lastErr' = IF Throws(behav["Runway"]) THEN "Runway" ELSE lastErr
                      /\ reply' = CASE behav["Runway"] = "ok" ->
                                         MediaReply(IF sub = "t2i" THEN "photo" ELSE "video",
                                                    "Runway")
                                    [] behav["Runway"] = "no_output" ->
                                         ErrorReply("RunwayNoOutput", "none")
                                    [] OTHER -> ErrorReply("RunwayError", "Runway")
       ELSE /\ hpc' = "repmedia"
            /\ UNCHANGED <<attempts, lastErr, reply>>
  /\ UNCHANGED <<mode, sub, env, behav, answer>>
  /\ RecordPosts
  /\ UNCHANGED <<pollVars, notifVars, histVars, adminVars, extractVars, memVars, jobVars>>

\* lines 582-616: every path of the Replicate branch returns
MediaReplicate ==
  /\ hpc = "repmedia"
  /\ IF sub \in repModes /\ "REPLICATE_API_KEY" \in env
       THEN /\ hpc' = "done"
            /\ IF "REPLICATE_MEDIA_MODEL" \notin env
                 THEN /\ reply' = ErrorReply("ReplicateModelNotSet", "none")
                      /\ UNCHANGED <<attempts, lastErr>>
                 ELSE /\ attempts' = Append(attempts, "Replicate")
                      /\ lastErr' = IF Throws(behav["Replicate"]) THEN "Replicate"
                                    ELSE lastErr
                      /\ reply' = CASE behav["Replicate"] \in {"sync", "poll_succeeded"} ->
                                         MediaReply("photo", "Replicate")
                                    [] behav["Replicate"] = "poll_no_output" ->
                                         ErrorReply("ReplicateNoOutput", "none")
                                    [] behav["Replicate"] = "started" ->
                                         ErrorReply("ReplicateStarted", "none")
                                    [] OTHER -> ErrorReply("ReplicateMediaError", "Replicate")
       ELSE /\ hpc' = "stability"
            /\ UNCHANGED <<attempts, lastErr, reply>>
  /\ UNCHANGED <<mode, sub, env, behav, answer>>
  /\ RecordPosts
  /\ UNCHANGED <<pollVars, notifVars, histVars, adminVars, extractVars, memVars, jobVars>>

\* lines 619-625
MediaStability ==
  /\ hpc = "stability"
  /\ IF sub = "t2i" /\ "STABILITY_KEY" \in env
       THEN /\ attempts' = Append(attempts, "Stability")
            /\ IF behav["Stability"] = "ok"
                 THEN /\ reply' = MediaReply("photo", "Stability")
                      /\ hpc' = "done"
                      /\ UNCHANGED lastErr
                 ELSE /\ lastErr' = "Stability"
                      /\ hpc' = "pixabay"
                      /\ UNCHANGED reply
       ELSE /\ hpc' = "pixabay"
            /\ UNCHANGED <<attempts, lastErr, reply>>
  /\ UNCHANGED <<mode, sub, env, behav, answer>>
  /\ RecordPosts
  /\ UNCHANGED <<pollVars, notifVars, histVars, adminVars, extractVars, memVars, jobVars>>

\* lines 619, 626-631
MediaPixabay ==
  /\ hpc = "pixabay"
  /\ IF sub = "t2i" /\ "PIXABAY_KEY" \in env
       THEN /\ attempts' = Append(attempts, "Pixabay")
            /\ IF behav["Pixabay"] = "ok"
                 THEN /\ reply' = MediaReply("photo", "Pixabay")
                      /\ hpc' = "done"
                      /\ UNCHANGED lastErr
                 ELSE /\ lastErr' = IF Throws(behav["Pixabay"]) THEN "Pixabay" ELSE lastErr
                      /\ hpc' = "mediafinal"
                      /\ UNCHANGED reply
       ELSE /\ hpc' = "mediafinal"
            /\ UNCHANGED <<attempts, lastErr, reply>>
  /\ UNCHANGED <<mode, sub, env, behav, answer>>
  /\ RecordPosts
  /\ UNCHANGED <<pollVars, notifVars, histVars, adminVars, extractVars, memVars, jobVars>>

\* line 634
MediaFinal ==
  /\ hpc = "mediafinal"
  /\ reply' = ErrorReply("NoMediaProvider", "none")
  /\ hpc' = "done"
  /\ UNCHANGED <<mode, sub, env, behav, answer, attempts, lastErr>>
  /\ RecordPosts
  /\ UNCHANGED <<pollVars, notifVars, histVars, adminVars, extractVars, memVars, jobVars>>

\* the branch a command enters first
FirstBranch(m) ==
  CASE m = "chat" -> "hfspace" [] m = "tts" -> "eleven" [] m = "media" -> "runway"

PollIdle ==
  /\ clock = StartTime /\ start = 0 /\ ppc = "idle" /\ pollResult = "none"
  /\ submitted = 0 /\ cancelled = FALSE /\ delivered = FALSE
  /\ lastPercent = -1 /\ lastSentTime = 0 /\ progressMsg = "null"
  /\ inflight = EmptyBag
  /\ tickPct = Absent /\ tickStatus = "none"
  /\ emitPct = -1 /\ emitTime = 0 /\ quietEmits = 0
  /\ sawPercent = FALSE /\ notifierErr = FALSE /\ newestMsg = "none"
  /\ given = NoPayload
  /\ ref = [pc |-> "idle", result |-> "none"]

InitChain ==
  /\ mode \in Modes
  /\ sub \in Subs(mode)
  /\ env \in SUBSET EnvNames(mode)
  /\ behav \in [Range(Chain(mode, sub)) -> UNION {Behaviours(c) : c \in Range(Chain(mode, sub))}]
  /\ \A c \in Range(Chain(mode, sub)) : behav[c] \in Behaviours(c)
  /\ hpc = FirstBranch(mode)
  /\ answer = "null" /\ attempts = <<>> /\ lastErr = "none" /\ reply = NoReply
  /\ posts = <<>>
  /\ PollIdle
  /\ AdminIdle
  /\ MemIdle
  /\ JobsIdle

NextChain ==
  \/ ChatHfSpace
  \/ ChatHfApi
  \/ ChatReplicate
  \/ ChatFallback
  \/ TtsElevenLabs
  \/ TtsReplicate
  \/ TtsFinal
  \/ MediaRunway
  \/ MediaReplicate
  \/ MediaStability
  \/ MediaPixabay
  \/ MediaFinal

SpecChain == InitChain /\ [][NextChain]_vars

(***************************************************************************)
(* Properties of the fallback chains                                       *)
(***************************************************************************)
ReplicateModel(m) ==
  CASE m = "chat" -> "REPLICATE_CHAT_MODEL"
    [] m = "tts" -> "REPLICATE_TTS_MODEL"
    [] OTHER -> "REPLICATE_MEDIA_MODEL"

\* the settings a provider needs are all set
Configured(c) ==
  CASE c = "HFSpace" -> "HF_SPACE_URL" \in env
    [] c = "HFApi" -> {"HUGGINGFACE_API_KEY", "HF_MODEL_URL"} \subseteq env
    [] c = "Replicate" -> {"REPLICATE_API_KEY", ReplicateModel(mode)} \subseteq env
    [] c = "ElevenLabs" -> {"ELEVENLABS_API_KEY", "ELEVENLABS_VOICE_ID"} \subseteq env
    [] c = "Runway" -> {"RUNWAY_API_KEY", "RUNWAY_URL"} \subseteq env
    [] c = "Stability" -> "STABILITY_KEY" \in env
    [] c = "Pixabay" -> "PIXABAY_KEY" \in env

\* the configured candidates of the command's chain, in order
ConfiguredChain == SelectSeq(Chain(mode, sub), Configured)
Attempted(c) == c \in Range(attempts)

\* the replies that tell the requester the command failed; for chat it is the
\* Wikipedia/DuckDuckGo stand-in of lines 486-490
IsFailureReply(r) ==
  \/ r.kind \in {"RunwayError", "ReplicateMediaError", "NoTtsProvider", "NoMediaProvider"}
  \/ (r.kind = "text" /\ r.src = "wikiduck")

\* no candidate has its credential set while its endpoint is missing
NoHalfConfigured == "RUNWAY_API_KEY" \in env => "RUNWAY_URL" \in env

\* C1: after an attempted candidate fails, the next configured candidate of the
\* chain is attempted, and a failure reply comes only after every configured
\* candidate of the chain was attempted (stated for commands none of whose
\* candidates is half configured).
C1_FailureTriesNext ==
  (hpc = "done" /\ NoHalfConfigured) =>
    LET ch == Chain(mode, sub)
    IN /\ \A i \in 1..Len(ch) :
            (Attempted(ch[i]) /\ Throws(behav[ch[i]])) =>
              \A j \in (i+1)..Len(ch) :
                (Configured(ch[j]) /\ \A k \in (i+1)..(j-1) : ~Configured(ch[k]))
                  => Attempted(ch[j])
       /\ IsFailureReply(reply) => \A c \in Range(ch) : Configured(c) => Attempted(c)

\* C2: when the configured candidates 1..N-1 all fail and candidate N returns
\* a synchronous result, the attempts are exactly the N candidates in order
\* and the reply is candidate N's result; and no candidate is called after one
\* that succeeded (stated for commands none of whose candidates is half
\* configured).
C2_LastCandidateAnswers ==
  (hpc = "done" /\ NoHalfConfigured) =>
    LET cfg == ConfiguredChain
        N   == Len(cfg)
    IN /\ ( /\ N >= 1
            /\ \A i \in 1..(N-1) : Throws(behav[cfg[i]])
            /\ behav[cfg[N]] \in {"ok", "sync"} )
          => (attempts = cfg /\ reply.src = cfg[N])
       /\ \A i \in 1..Len(attempts) :
            behav[attempts[i]] \in {"ok", "sync", "poll_succeeded"} => i = Len(attempts)

\* C3: when every configured candidate of the chain fails, the command ends
\* with a failure outcome that carries the last underlying error.
C3_AllFailedCarriesLastError ==
  hpc = "done" =>
    ( ( /\ ConfiguredChain # <<>>
        /\ \A c \in Range(ConfiguredChain) : Throws(behav[c]) )
      => (IsFailureReply(reply) /\ lastErr # "none" /\ reply.err = lastErr) )

\* C11: a candidate that is not configured is never called and never counts as
\* a failed attempt; the chain passes over it, so the first configured
\* candidate of the chain is attempted and the command does not end with an
\* error of a candidate that is not configured.
C11_UnconfiguredSkipped ==
  hpc = "done" =>
    /\ \A c \in Range(Chain(mode, sub)) : ~Configured(c) => ~Attempted(c)
    /\ lastErr \in {"none"} \cup {c \in Range(Chain(mode, sub)) : Configured(c)}
    /\ reply.kind \notin {"RunwayError", "ReplicateModelNotSet"}
         => (ConfiguredChain # <<>> => Attempted(ConfiguredChain[1]))
    /\ reply.kind \in {"RunwayError", "ReplicateModelNotSet"}
         => (attempts # <<>> /\ Configured(attempts[Len(attempts)]))

NoRepeat(seq) == \A i, j \in 1..Len(seq) : seq[i] = seq[j] => i = j

\* C12: within one command every candidate is attempted at most once: no
\* candidate is called twice, and a prompt that failed at a candidate is never
\* submitted to that candidate again.
C12_OneAttemptPerCandidate ==
  /\ NoRepeat(attempts)
  /\ NoRepeat(posts)

(***************************************************************************)
(* Admin commands (lines 34-40, 104-108, 662-691) and the conversation     *)
(* memory they reach (lines 62-97).                                        *)
(***************************************************************************)
\* ctx.from.id of the senders, the channels a post may name, what is stored
Senders == {7, 8, 9}
Channels == {"@news"}
SomeHistory == <<"m">>
\* parts[1] of clear_memory and export_memory: none, or the chat id of sender 7
TargetArgs == {"", "7"}
\* values of the OWNER_ID setting and entries of the ADMIN_IDS setting
OwnerSettings == {"unset", "7", "7x", "x", "0"}
AdminEntries == {"8", "0", "x"}

\* parseInt(s, 10): the leading digits, Absent (NaN) when there are none
ParseInt(tok) ==
  CASE tok = "7" -> <<7>> [] tok = "7x" -> <<7>>
    [] tok = "8" -> <<8>> [] tok = "0" -> <<0>>
    [] OTHER -> Absent

\* a parsed number that is neither NaN nor 0
Truthy(n) == Known(n) /\ Val(n) # 0

\* line 34: null when the setting is not set
OWNER_ID == IF ownerEnv = "unset" THEN Absent ELSE ParseInt(ownerEnv)
\* lines 35-40: .map(s => parseInt(s, 10)).filter(Boolean)
ADMIN_IDS == {Val(ParseInt(e)) : e \in {t \in adminEnv : Truthy(ParseInt(t))}}

\* isAdmin answering yes to everybody while no owner and no admin is configured
isAdmin_OpenWhenUnconfigured(userId) ==
  \/ (~Truthy(OWNER_ID) /\ ADMIN_IDS = {})
  \/ (Truthy(OWNER_ID) /\ userId = Val(OWNER_ID))
  \/ userId \in ADMIN_IDS

\* lines 104-108
isAdmin(userId) ==
  IF userId = 0 THEN FALSE
  ELSE IF Truthy(OWNER_ID) /\ userId = Val(OWNER_ID) THEN TRUE
  ELSE userId \in ADMIN_IDS

\* String(ctx.from.id)
IdString(userId) == CASE userId = 7 -> "7" [] userId = 8 -> "8" [] userId = 9 -> "9"

\* parts[1] || String(ctx.from.id), lines 680 and 688
Target(arg, userId) == IF arg = "" THEN IdString(userId) ELSE arg

AdminReply(u, m, t, r, c) ==
  [from |-> u, mode |-> m, target |-> t, reply |-> r, content |-> c]

\* lines 663-675: /ai post <channel> <message>
AdminPost ==
  /\ \E u \in Senders, channel \in Channels \cup {""}, sent \in BOOLEAN :
       IF ~isAdmin(u)
         THEN /\ cmd' = AdminReply(u, "post", channel, "AdminOnly", NoHistory)
              /\ UNCHANGED posted
       ELSE IF channel = ""
         THEN /\ cmd' = AdminReply(u, "post", channel, "Usage", NoHistory)
              /\ UNCHANGED posted
       ELSE IF sent
         THEN /\ posted' = posted \cup {[channel |-> channel, by |-> u]}
              /\ cmd' = AdminReply(u, "post", channel, "Posted", NoHistory)
       ELSE /\ cmd' = AdminReply(u, "post", channel, "FailedToPost", NoHistory)
            /\ UNCHANGED posted
  /\ UNCHANGED <<ownerEnv, adminEnv, usingRedis, redisStore, memCache>>
  /\ UNCHANGED <<pollVars, notifVars, histVars, chainVars, extractVars, memVars, jobVars>>

\* lines 677-683 with clearMemory (lines 86-97): redis.del, or memCache.del
\* when Redis is not in use or the del fails
AdminClearMemory ==
  /\ \E u \in Senders, arg \in TargetArgs, redisOk \in BOOLEAN :
       LET target == Target(arg, u)
       IN IF ~isAdmin(u)
            THEN /\ cmd' = AdminReply(u, "clear_memory", target, "AdminOnly", NoHistory)
                 /\ UNCHANGED <<redisStore, memCache>>
            ELSE /\ cmd' = AdminReply(u, "clear_memory", target, "Cleared", NoHistory)
                 /\ IF usingRedis /\ redisOk
                      THEN /\ redisStore' = [redisStore EXCEPT ![target] = NoHistory]
                           /\ UNCHANGED memCache
                      ELSE /\ memCache' = [memCache EXCEPT ![target] = NoHistory]
                           /\ UNCHANGED redisStore
  /\ UNCHANGED <<ownerEnv, adminEnv, usingRedis, posted>>
  /\ UNCHANGED <<pollVars, notifVars, histVars, chainVars, extractVars, memVars, jobVars>>

\* lines 685-691 with getMemory (lines 62-73): redis.get, or memCache.get when
\* Redis is not in use or the get fails
AdminExportMemory ==
  /\ \E u \in Senders, arg \in TargetArgs, redisOk \in BOOLEAN :
       LET target == Target(arg, u)
           mem    == IF usingRedis /\ redisOk THEN redisStore[target]
                     ELSE memCache[target]
       IN IF ~isAdmin(u)
            THEN cmd' = AdminReply(u, "export_memory", target, "AdminOnly", NoHistory)
            ELSE cmd' = AdminReply(u, "export_memory", target, "Memory", mem)
  /\ UNCHANGED <<ownerEnv, adminEnv, usingRedis, redisStore, memCache, posted>>
  /\ UNCHANGED <<pollVars, notifVars, histVars, chainVars, extractVars, memVars, jobVars>>

InitAdmin ==
  /\ ownerEnv \in OwnerSettings
  /\ adminEnv \in SUBSET AdminEntries
  /\ usingRedis \in BOOLEAN
  \* every sender has chatted before: a history is stored for each
  /\ redisStore = [k \in ChatKeys |-> IF usingRedis THEN SomeHistory ELSE NoHistory]
  /\ memCache = [k \in ChatKeys |-> SomeHistory]
  /\ posted = {} /\ cmd = NoCmd
  /\ PollIdle
  /\ ChainIdle
  /\ MemIdle
  /\ JobsIdle

NextAdmin ==
  \/ AdminPost
  \/ AdminClearMemory
  \/ AdminExportMemory

SpecAdmin == InitAdmin /\ [][NextAdmin]_vars

\* the sender is the owner or is in the admin list
IsOwnerOrAdmin(u) ==
  \/ (Known(OWNER_ID) /\ u = Val(OWNER_ID))
  \/ u \in ADMIN_IDS

\* a command of a sender who is neither: nothing is posted, nothing is cleared
\* and the reply holds no memory content
RefusedWithoutEffect ==
  ~IsOwnerOrAdmin(cmd'.from) =>
     /\ UNCHANGED <<posted, redisStore, memCache>>
     /\ cmd'.reply = "AdminOnly"
     /\ cmd'.content = NoHistory

\* C16: post, clear_memory and export_memory take effect only for the owner
\* and the admins: a command of any other sender (of every sender when no owner
\* and no admin is configured) posts no channel message, clears no memory entry
\* and replies no memory content.
C16_AdminCommandsNeedAdmin ==
  [][RefusedWithoutEffect]_vars

\* a refused clear_memory of a sender who is not an admin, aimed at a chat
\* whose history is stored, while an owner is configured
C16_Witness ==
  /\ cmd.mode = "clear_memory" /\ cmd.reply = "AdminOnly"
  /\ ~IsOwnerOrAdmin(cmd.from)
  /\ Truthy(OWNER_ID)
  /\ memCache[cmd.target] # NoHistory

(***************************************************************************)
(* The conversation memory (lines 62-97), called with Redis operations     *)
(* that may fail one by one.                                               *)
(***************************************************************************)
\* the chat ids the memory functions are called with, and the histories saved
MemKeys == {"7", "8"}
OtherHistory == <<"m", "n">>
SavedHistories == {NoHistory, SomeHistory, OtherHistory}

\* lines 62-73: redis.get when Redis is in use and the get succeeds (a missing
\* key gives []), memCache.get otherwise
getMemory(chatId, redisOk) ==
  IF usingRedis /\ redisOk THEN redisStore[chatId] ELSE memCache[chatId]

\* lines 74-85: redis.set and return, or memCache.set when Redis is not in
\* use or the set failed
saveMemory(chatId, history, redisOk) ==
  IF usingRedis /\ redisOk
    THEN /\ redisStore' = [redisStore EXCEPT ![chatId] = history]
         /\ UNCHANGED memCache
    ELSE /\ memCache' = [memCache EXCEPT ![chatId] = history]
         /\ UNCHANGED redisStore

\* lines 86-97: redis.del and return, or memCache.del when Redis is not in
\* use or the del failed
clearMemory(chatId, redisOk) ==
  IF usingRedis /\ redisOk
    THEN /\ redisStore' = [redisStore EXCEPT ![chatId] = NoHistory]
         /\ UNCHANGED memCache
    ELSE /\ memCache' = [memCache EXCEPT ![chatId] = NoHistory]
         /\ UNCHANGED redisStore

Completed(h) == [known |-> TRUE, value |-> h]

\* a call of getMemory(k) runs to completion
CallGetMemory ==
  /\ \E k \in MemKeys, redisOk \in BOOLEAN :
       got' = [key |-> k, value |-> getMemory(k, redisOk)]
  /\ UNCHANGED <<latest, chat, ownerEnv, adminEnv, usingRedis, redisStore,
                 memCache, posted, cmd>>
  /\ UNCHANGED <<pollVars, notifVars, histVars, chainVars, extractVars, jobVars>>

\* a call of saveMemory(k, h) runs to completion
CallSaveMemory ==
  /\ \E k \in MemKeys, h \in SavedHistories, redisOk \in BOOLEAN :
       /\ saveMemory(k, h, redisOk)
       /\ latest' = [latest EXCEPT ![k] = Completed(h)]
  /\ got' = NoGet
  /\ UNCHANGED <<chat, ownerEnv, adminEnv, usingRedis, posted, cmd>>
  /\ UNCHANGED <<pollVars, notifVars, histVars, chainVars, extractVars, jobVars>>

\* a call of clearMemory(k) runs to completion
CallClearMemory ==
  /\ \E k \in MemKeys, redisOk \in BOOLEAN :
       /\ clearMemory(k, redisOk)
       /\ latest' = [latest EXCEPT ![k] = Completed(NoHistory)]
  /\ got' = NoGet
  /\ UNCHANGED <<chat, ownerEnv, adminEnv, usingRedis, posted, cmd>>
  /\ UNCHANGED <<pollVars, notifVars, histVars, chainVars, extractVars, jobVars>>

\* the process has started: Redis is configured or not, both stores are empty
InitMemory ==
  /\ ownerEnv = "unset" /\ adminEnv = {} /\ posted = {} /\ cmd = NoCmd
  /\ usingRedis \in BOOLEAN
  /\ redisStore = [k \in ChatKeys |-> NoHistory]
  /\ memCache = [k \in ChatKeys |-> NoHistory]
  /\ MemIdle
  /\ JobsIdle
  /\ PollIdle
  /\ ChainIdle

NextMemory ==
  \/ CallGetMemory
  \/ CallSaveMemory
  \/ CallClearMemory

SpecMemory == InitMemory /\ [][NextMemory]_vars

\* C22: with Redis configured and every Redis operation free to fail on its
\* own, getMemory(k) returns what the most recent completed saveMemory(k, h)
\* or clearMemory(k) left for that key: h after a save, [] after a clear.
C22_GetReturnsLatest ==
  (usingRedis /\ got.key # "none" /\ latest[got.key].known)
     => got.value = latest[got.key].value

(***************************************************************************)
(* Two chat commands of one requester handled at the same time (lines      *)
(* 424-495): each handler reads the history, awaits its answer and saves.  *)
(***************************************************************************)
\* ctx.from.id of the requester, as the memory key
Requester == "7"
\* the entries a handler pushes: {role: 'user', ...} and {role: 'assistant', ...}
UserEntry(i) == IF i = 1 THEN "p1" ELSE "p2"
AssistantEntry(i) == IF i = 1 THEN "a1" ELSE "a2"

\* lines 436-437: mem = await getMemory(ctx.from.id); mem.push(user prompt).
\* The handler then awaits the providers (lines 444-490).
ChatRead ==
  /\ \E i \in ChatHandlers, redisOk \in BOOLEAN :
       /\ chat[i].pc = "idle"
       /\ chat' = [chat EXCEPT ![i] =
            [pc |-> "answering",
             mem |-> Append(getMemory(Requester, redisOk), UserEntry(i))]]
  /\ UNCHANGED <<latest, got, adminVars>>
  /\ UNCHANGED <<pollVars, notifVars, histVars, chainVars, extractVars, jobVars>>

\* lines 492-494: mem.push(assistant answer); await saveMemory(ctx.from.id, mem);
\* the answer is replied
ChatSave ==
  /\ \E i \in ChatHandlers, redisOk \in BOOLEAN :
       /\ chat[i].pc = "answering"
       /\ LET mem == Append(chat[i].mem, AssistantEntry(i))
          IN /\ saveMemory(Requester, mem, redisOk)
             /\ chat' = [chat EXCEPT ![i] = [pc |-> "done", mem |-> mem]]
  /\ UNCHANGED <<latest, got, ownerEnv, adminEnv, usingRedis, posted, cmd>>
  /\ UNCHANGED <<pollVars, notifVars, histVars, chainVars, extractVars, jobVars>>

\* Redis is configured or not; the requester has chatted before or not, and
\* an earlier history is in the store that saveMemory used
InitChat ==
  /\ ownerEnv = "unset" /\ adminEnv = {} /\ posted = {} /\ cmd = NoCmd
  /\ usingRedis \in BOOLEAN
  /\ \E h \in {NoHistory, SomeHistory}, inRedis \in BOOLEAN :
       /\ inRedis => usingRedis
       /\ redisStore = [k \in ChatKeys |->
                          IF k = Requester /\ inRedis THEN h ELSE NoHistory]
       /\ memCache = [k \in ChatKeys |->
                        IF k = Requester /\ ~inRedis THEN h ELSE NoHistory]
  /\ MemIdle
  /\ JobsIdle
  /\ PollIdle
  /\ ChainIdle

NextChat ==
  \/ ChatRead
  \/ ChatSave

SpecChat == InitChat /\ [][NextChat]_vars

\* both handlers have saved and replied
BothCompleted == \A i \in ChatHandlers : chat[i].pc = "done"
\* the four entries of the two exchanges
BothExchanges == {UserEntry(i) : i \in ChatHandlers} \cup
                 {AssistantEntry(i) : i \in ChatHandlers}

\* C23: when two chat commands of the same requester run concurrently no
\* exchange is lost: after both handlers have completed, the stored history of
\* the requester (in Redis or in the cache) holds both user prompts and both
\* assistant answers.
C23_NoExchangeLost ==
  BothCompleted =>
     \E redisOk \in BOOLEAN : BothExchanges \subseteq Range(getMemory(Requester, redisOk))

(***************************************************************************)
(* Replicate jobs of /ai handlers that run at the same time (lines         *)
(* 470-476): every handler creates its job, creates its notifier and polls *)
(* the id it was given.                                                    *)
(***************************************************************************)
\* how long a status fetch of these runs takes, and what it returns
RunFetchDurations == {MIN_INTERVAL_MS}
RunPayloads ==
  {Payload("processing", Absent), Payload("processing", <<100>>),
   Payload("canceled", <<160>>), Payload("succeeded", <<160>>),
   Payload("failed", Absent)}

\* lines 223-225: the variables of a new closure
FreshCell ==
  [lastPercent |-> -1, lastSentTime |-> 0, progressMsg |-> "null",
   inflight |-> EmptyBag]

\* the three variables declared once for the module, shared by every onProgress
createReplicateProgressEditorFactory_ModuleState(created) == 1

\* lines 220-230: each call declares new variables and returns an onProgress
\* closed over them; with `created` closures so far this is closure created + 1
createReplicateProgressEditorFactory(created) == created + 1

\* lines 231-265/270 on the variables of one closure: onProgress(res) at time
\* now, up to its first await
CellDue(cell, res, now) ==
  ShouldUpdate(ExtractPercent(res), cell.lastPercent, now, cell.lastSentTime)

CellOnProgress(cell, res, now) ==
  IF CellDue(cell, res, now)
    THEN [cell EXCEPT
            !.lastSentTime = now,
            !.inflight = @ (+) SetToBag({[pct |-> ExtractPercent(res),
                                          phase |-> DeliveryPath(cell.progressMsg)]})]
    ELSE cell

\* a timer or a response is handled when it is due, or later
Later(due) == Max(clock, due)

\* lines 470-474, 203-207: callReplicateCreate returns; with an id the handler
\* creates its notifier and calls pollReplicatePrediction(created.id, ...),
\* which passes its first deadline check and starts the first fetch
HandlerCreate ==
  /\ \E h \in ChatHandlers, hasId \in BOOLEAN, dur \in RunFetchDurations :
       /\ runs[h].pc = "idle"
       /\ IF hasId
            THEN LET id == issued + 1
                     c  == createReplicateProgressEditorFactory(Len(cells))
                     t  == LoopTop(0)
                 IN /\ issued' = id
                    /\ cells' = IF c > Len(cells) THEN Append(cells, FreshCell)
                                ELSE cells
                    /\ polls' = Append(polls, id)
                    /\ runs' = [runs EXCEPT ![h] =
                         [pc |-> t.pc, job |-> id, cell |-> c, start |-> clock,
                          due |-> clock + dur, result |-> t.result]]
            ELSE /\ runs' = [runs EXCEPT ![h] = [NoRun EXCEPT !.pc = "done",
                                                  !.result = "not_polled"]]
                 /\ UNCHANGED <<cells, issued, polls>>
  /\ UNCHANGED <<pollVars, notifVars, histVars, chainVars, adminVars,
                 extractVars, memVars>>

\* lines 207-213: the fetch of a run returns res, onProgress(res) runs to its
\* first await on the closure of this run, then the status decides
RunFetchReturns ==
  /\ \E h \in ChatHandlers, res \in RunPayloads :
       LET r    == runs[h]
           now  == Later(r.due)
           t    == AfterFetch(res)
       IN /\ r.pc = "fetching"
          /\ CellDue(cells[r.cell], res, now)
               => BagCardinality(cells[r.cell].inflight) < MaxInflight
          /\ clock' = now
          /\ cells' = [cells EXCEPT ![r.cell] = CellOnProgress(@, res, now)]
          /\ runs' = [runs EXCEPT ![h] =
               [r EXCEPT !.pc = t.pc, !.result = t.result,
                         !.due = now + REPLICATE_POLL_INTERVAL_MS]]
  /\ UNCHANGED <<start, ppc, pollResult, submitted, cancelled, delivered,
                 issued, polls>>
  /\ UNCHANGED <<notifVars, histVars, chainVars, adminVars, extractVars, memVars>>

\* line 207: the fetch of a run rejects
RunFetchThrows ==
  /\ \E h \in ChatHandlers :
       /\ runs[h].pc = "fetching"
       /\ clock' = Later(runs[h].due)
       /\ runs' = [runs EXCEPT ![h] =
            [@ EXCEPT !.pc = "done", !.result = "net_error"]]
  /\ UNCHANGED <<start, ppc, pollResult, submitted, cancelled, delivered,
                 cells, issued, polls>>
  /\ UNCHANGED <<notifVars, histVars, chainVars, adminVars, extractVars, memVars>>

\* lines 213, 205-207: the sleep of a run ends, the deadline is checked and
\* the next fetch starts
RunWake ==
  /\ \E h \in ChatHandlers, dur \in RunFetchDurations :
       LET r   == runs[h]
           now == Later(r.due)
           t   == LoopTop(now - r.start)
       IN /\ r.pc = "sleeping"
          /\ clock' = now
          /\ runs' = [runs EXCEPT ![h] =
               [r EXCEPT !.pc = t.pc, !.result = t.result, !.due = now + dur]]
  /\ UNCHANGED <<start, ppc, pollResult, submitted, cancelled, delivered,
                 cells, issued, polls>>
  /\ UNCHANGED <<notifVars, histVars, chainVars, adminVars, extractVars, memVars>>

\* lines 265-266, 270-277: the awaited send, edit or fallback reply of an
\* invocation resolves; progressMsg is written after a send, lastPercent when
\* the update showed a percent
RunDeliveryDone ==
  /\ \E c \in 1..Len(cells) : \E inv \in BagToSet(cells[c].inflight) :
       cells' = [cells EXCEPT ![c] =
         [@ EXCEPT !.progressMsg = IF inv.phase = "send" THEN "sent" ELSE @,
                   !.lastPercent = PercentAfterDelivery(inv.pct, @),
                   !.inflight = @ (-) SetToBag({inv})]]
  /\ UNCHANGED <<runs, issued, polls>>
  /\ UNCHANGED <<pollVars, notifVars, histVars, chainVars, adminVars,
                 extractVars, memVars>>

\* lines 265, 273, 278-280: the send or the fallback reply rejects; the catch
\* of line 278 ends the invocation and nothing is written
RunDeliveryFailed ==
  /\ \E c \in 1..Len(cells) : \E inv \in BagToSet(cells[c].inflight) :
       cells' = [cells EXCEPT ![c] =
         [@ EXCEPT !.inflight = @ (-) SetToBag({inv})]]
  /\ UNCHANGED <<runs, issued, polls>>
  /\ UNCHANGED <<pollVars, notifVars, histVars, chainVars, adminVars,
                 extractVars, memVars>>

InitJobs ==
  /\ PollIdle
  /\ ChainIdle
  /\ AdminIdle
  /\ MemIdle
  /\ JobsIdle

NextJobs ==
  \/ HandlerCreate
  \/ RunFetchReturns
  \/ RunFetchThrows
  \/ RunWake
  \/ RunDeliveryDone
  \/ RunDeliveryFailed

SpecJobs == InitJobs /\ [][NextJobs]_vars

\* the handlers whose polling loop on job id is active
ActivePollers(id) ==
  {h \in ChatHandlers : runs[h].job = id /\ runs[h].pc \in {"fetching", "sleeping"}}
\* the calls of pollReplicatePrediction made with job id
PollCalls(id) == {i \in 1..Len(polls) : polls[i] = id}
\* the handlers that were given a job id
WithJob == {h \in ChatHandlers : runs[h].job # 0}

====
